---- MODULE Spec2Model ----
(***************************************************************************)
(* nulldb (src/src/sstweek/main.rs): a log-structured key-value engine.    *)
(* One write-ahead log, one memtable, a list of SSTables, and the engine   *)
(* metadata file meta.json.                                                *)
(*                                                                         *)
(* Four specifications:                                                    *)
(*   Spec     the engine Db over a modelled file system: new, put, get,    *)
(*            flush_memtable, process exit and crash.                      *)
(*   SpecFault  the same engine where a put or a flush may also fail at    *)
(*            one of its I/O calls, leaving a partial write behind.        *)
(*   SpecWal  one session of puts with no flush, for the WAL replay.       *)
(*   SpecSST  SSTable::construct on a sorted input, SSTable::open of what  *)
(*            it wrote, and <SSTable as Queryable>::get of a probe key.    *)
(*                                                                         *)
(* Conventions.  A key or value is a sequence of bytes (0..255).  A binary *)
(* file (the .sst data file) is a sequence of bytes.  A JSON text file is  *)
(* a sequence of characters, each a string of length 1, so that lengths    *)
(* and offsets are byte counts.  A write that is cut short leaves a prefix *)
(* of what it was writing.                                                 *)
(***************************************************************************)
EXTENDS Integers, Sequences, FiniteSets, TLC

VARIABLES
    \* ---- the file system and the clock (Spec)
    fs,         \* path -> [exists, data, durable]
    now,        \* SystemTime::now() in seconds
    \* ---- the process: struct Db (Spec)
    db,         \* "closed" | "open"
    log,        \* Db.log.path
    memtable,   \* Db.memtable.data  (a function from a set of keys)
    sstables,   \* Db.sstables       (a sequence of SSTable values)
    meta,       \* Db.meta           ([sstables, wal])
    ret,        \* what the last operation returned
    \* ---- bookkeeping (Spec)
    hist,       \* what the callers did and saw, for stating the properties
    used,       \* how many operations of each kind have run
    cap,        \* how many of each kind a behaviour may run (the bounds)
    pending,    \* writes handed to the blocking pool that have not reached their file
    \* ---- one SSTable on its own (SpecSST)
    sst_input,  \* the records handed to construct
    sst_table,  \* the SSTable held: [built, meta, index, data_file]
    sst_result  \* [key, out, start]: the last get and what it gave

engVars == <<fs, now, db, log, memtable, sstables, meta, ret, hist, used, cap, pending>>
sstVars == <<sst_input, sst_table, sst_result>>
vars == <<fs, now, db, log, memtable, sstables, meta, ret, hist, used, cap, pending,
          sst_input, sst_table, sst_result>>

(***************************************************************************)
(* Results: Option<Vec<u8>> and the ways an operation can end.             *)
(***************************************************************************)
Some(v) == [tag |-> "Some", val |-> v]
None == [tag |-> "None", val |-> <<>>]
IoErr == [tag |-> "Io", val |-> <<>>]
SerdeErr == [tag |-> "Serde", val |-> <<>>]
Panic == [tag |-> "Panic", val |-> <<>>]
OkUnit == [tag |-> "Ok", val |-> <<>>]

(***************************************************************************)
(* Bytes.                                                                  *)
(***************************************************************************)
\* key.as_slice().cmp(other) == Less: byte-lexicographic, a proper prefix first
RECURSIVE SliceLess(_, _)
SliceLess(a, b) ==
    IF b = <<>> THEN FALSE
    ELSE IF a = <<>> THEN TRUE
    ELSE IF a[1] # b[1] THEN a[1] < b[1]
    ELSE SliceLess(Tail(a), Tail(b))

\* write_u32: four bytes, big-endian
write_u32(n) ==
    << (n \div 16777216) % 256, (n \div 65536) % 256, (n \div 256) % 256, n % 256 >>

\* read_u32 of four bytes, big-endian
read_u32(b) == b[1] * 16777216 + b[2] * 65536 + b[3] * 256 + b[4]

\* one record of the data file: [u32 key_len][key][u32 value_len][value]
EncodeRecord(key, value) ==
    write_u32(Len(key)) \o key \o write_u32(Len(value)) \o value

\* a file opened with write(true).create(true) and no truncate, written from
\* position 0: the new bytes replace the head, an older longer tail stays
WriteAtStart(old, new) == new \o SubSeq(old, Len(new) + 1, Len(old))

(***************************************************************************)
(* SSTable::construct: the data bytes and the sparse index.                *)
(***************************************************************************)
IndexInterval == 16

\* a construct loop that takes an index entry's offset after the record is written
RECURSIVE construct_loop_after(_, _, _, _)
construct_loop_after(data, i, bytes, index) ==
    IF i = Len(data) THEN [data |-> bytes, index |-> index]
    ELSE LET key == data[i + 1][1]
             value == data[i + 1][2]
             written == bytes \o EncodeRecord(key, value)
         IN  construct_loop_after(data, i + 1, written,
                 IF i % IndexInterval = 0 THEN Append(index, <<key, Len(written)>>)
                 ELSE index)

\* the for loop of construct; i is enumerate()'s index, bytes what has been
\* written, so Len(bytes) is the offset seek(Current(0)) returns
RECURSIVE construct_loop(_, _, _, _)
construct_loop(data, i, bytes, index) ==
    IF i = Len(data) THEN [data |-> bytes, index |-> index]
    ELSE LET key == data[i + 1][1]
             value == data[i + 1][2]
             offset == Len(bytes)
         IN  construct_loop(data, i + 1, bytes \o EncodeRecord(key, value),
                 IF i % IndexInterval = 0 THEN Append(index, <<key, offset>>)
                 ELSE index)

construct(data) == construct_loop(data, 0, <<>>, <<>>)

(***************************************************************************)
(* <SSTable as Queryable>::get.                                            *)
(***************************************************************************)
\* self.index.binary_search_by(|(k, _)| k.as_slice().cmp(key)) on an index
\* sorted by unique keys: Ok(i) at the entry equal to key, else Err(i) with i
\* the number of entries below key.  Both arms of the match give i (0-based).
binary_search(index, key) ==
    IF \E j \in 1..Len(index) : index[j][1] = key
    THEN (CHOOSE j \in 1..Len(index) : index[j][1] = key) - 1
    ELSE Cardinality({j \in 1..Len(index) : SliceLess(index[j][1], key)})

\* `match ... { Ok(i) => i, Err(i) => i } - 1` in usize: at i = 0 the
\* subtraction overflows (a panic in a debug build; in a release build it wraps
\* to usize::MAX and self.index[loc] panics on the bound).  -1 stands for that.
get_loc(index, key) ==
    LET i == binary_search(index, key) IN IF i = 0 THEN -1 ELSE i - 1

\* the while loop of get from byte offset `location` of the data file
RECURSIVE get_scan(_, _, _)
get_scan(file, location, key) ==
    IF ~(location < Len(file)) THEN None
    ELSE IF location + 4 > Len(file) THEN IoErr         \* read_u32: UnexpectedEof
    ELSE LET key_len == read_u32(SubSeq(file, location + 1, location + 4))
             kend == location + 4 + key_len
         IN  IF kend > Len(file) THEN IoErr              \* read_exact
             ELSE IF kend + 4 > Len(file) THEN IoErr
             ELSE LET current_key == SubSeq(file, location + 5, kend)
                      value_len == read_u32(SubSeq(file, kend + 1, kend + 4))
                      vend == kend + 4 + value_len
                  IN  IF vend > Len(file) THEN IoErr
                      ELSE IF current_key = key
                           THEN Some(SubSeq(file, kend + 5, vend))
                      ELSE IF SliceLess(key, current_key) THEN None
                      ELSE get_scan(file, vend, key)

\* the byte offset the scan starts at, -1 when get panics before it has one
get_start(index, key) ==
    LET loc == get_loc(index, key)
    IN  IF loc < 0 \/ loc >= Len(index) THEN -1 ELSE index[loc + 1][2]

\* get on the SSTable S, `file` being the bytes of its data file.  S.data_file
\* is how the File was opened: SSTable::construct opens it with write(true)
\* only, so the first read_u32 on it fails (EBADF); SSTable::open opens it
\* for reading.  try_clone, seek and metadata work on both.
SSTable_get(S, file, key) ==
    LET location == get_start(S.index, key)
    IN  IF location < 0 THEN Panic
        ELSE IF S.data_file = "write" /\ location < Len(file) THEN IoErr
        ELSE get_scan(file, location, key)

(***************************************************************************)
(* JSON text, character by character (serde_json::to_string / from_str).   *)
(* The engine's files hold the compact text serde_json writes; what can be *)
(* read back is that text, and every cut, merge or overlay of it fails to  *)
(* parse unless it is such a text again.                                   *)
(***************************************************************************)
Digits == <<"0", "1", "2", "3", "4", "5", "6", "7", "8", "9">>
IsDigit(c) == \E d \in 1..10 : Digits[d] = c
DigitVal(c) == (CHOOSE d \in 1..10 : Digits[d] = c) - 1

\* a u8 or u64 written in decimal
RECURSIVE NumText(_)
NumText(n) ==
    IF n < 10 THEN <<Digits[n + 1]>>
    ELSE NumText(n \div 10) \o <<Digits[(n % 10) + 1]>>

\* the largest u8, and how many digits of a u64 the model reads
U8Max == 255
MaxDigits == 9

\* the position after the digits that start at pos
RECURSIVE DigitsEnd(_, _)
DigitsEnd(text, pos) ==
    IF pos <= Len(text) /\ IsDigit(text[pos]) THEN DigitsEnd(text, pos + 1) ELSE pos

\* the value of the digits text[from..to]
RECURSIVE DigitsVal(_, _, _)
DigitsVal(text, from, to) ==
    IF to < from THEN 0
    ELSE DigitsVal(text, from, to - 1) * 10 + DigitVal(text[to])

\* the number whose digits are text[pos..e-1]: [ok, val, next]; wide is TRUE
\* for a u64, FALSE for a u8 (a value above 255 is an error, as is a leading
\* zero)
NumAt(text, pos, e, wide) ==
    LET bad == [ok |-> FALSE, val |-> 0, next |-> 0]
    IN  IF e = pos \/ e - pos > MaxDigits \/ (e - pos > 1 /\ text[pos] = "0") THEN bad
        ELSE IF ~wide /\ DigitsVal(text, pos, e - 1) > U8Max THEN bad
        ELSE [ok |-> TRUE, val |-> DigitsVal(text, pos, e - 1), next |-> e]

\* reads a number at pos: [ok, val, next]
ParseNum(text, pos, wide) == NumAt(text, pos, DigitsEnd(text, pos), wide)

\* text[pos..] starts with lit
Expect(text, pos, lit) ==
    /\ pos >= 1
    /\ pos + Len(lit) - 1 <= Len(text)
    /\ SubSeq(text, pos, pos + Len(lit) - 1) = lit

\* Vec<u8> as a JSON array of numbers: [1,16]
RECURSIVE BytesItems(_)
BytesItems(b) ==
    IF b = <<>> THEN <<>>
    ELSE IF Len(b) = 1 THEN NumText(b[1])
    ELSE NumText(b[1]) \o <<",">> \o BytesItems(Tail(b))

BytesTok(b) == <<"[">> \o BytesItems(b) \o <<"]">>

\* reads the numbers of a Vec<u8> from pos, after "[" or ",": [ok, val, next]
RECURSIVE ParseByteList(_, _, _)

\* the list after its number n was read: "]" ends it, "," goes on
ByteListNext(text, n, acc) ==
    LET bad == [ok |-> FALSE, val |-> <<>>, next |-> 0]
    IN  IF ~n.ok \/ n.next > Len(text) THEN bad
        ELSE IF text[n.next] = "]"
             THEN [ok |-> TRUE, val |-> Append(acc, n.val), next |-> n.next + 1]
        ELSE IF text[n.next] = ","
             THEN ParseByteList(text, n.next + 1, Append(acc, n.val))
        ELSE bad

ParseByteList(text, pos, acc) == ByteListNext(text, ParseNum(text, pos, FALSE), acc)

\* reads a Vec<u8> at pos: [ok, val, next]
ParseBytes(text, pos) ==
    IF pos < 1 \/ pos + 1 > Len(text) \/ text[pos] # "["
    THEN [ok |-> FALSE, val |-> <<>>, next |-> 0]
    ELSE IF text[pos + 1] = "]" THEN [ok |-> TRUE, val |-> <<>>, next |-> pos + 2]
    ELSE ParseByteList(text, pos + 1, <<>>)

\* a JSON string: "db/1.meta"
StringText(chars) == <<"\"">> \o chars \o <<"\"">>

\* reads a JSON string at pos: [ok, val, next]
ParseString(text, pos) ==
    IF pos < 1 \/ pos > Len(text) \/ text[pos] # "\""
       \/ ~(\E j \in (pos + 1)..Len(text) : text[j] = "\"")
    THEN [ok |-> FALSE, val |-> <<>>, next |-> 0]
    ELSE LET c == CHOOSE j \in (pos + 1)..Len(text) :
                     /\ text[j] = "\""
                     /\ \A i \in (pos + 1)..(j - 1) : text[i] # "\""
         IN  [ok |-> TRUE, val |-> SubSeq(text, pos + 1, c - 1), next |-> c + 1]

\* struct Put {key, value}: serde_json::to_string(&put)
PutKeyField == <<"{", "\"", "k", "e", "y", "\"", ":">>
PutValueField == <<",", "\"", "v", "a", "l", "u", "e", "\"", ":">>

put_to_string(key, value) ==
    PutKeyField \o BytesTok(key) \o PutValueField \o BytesTok(value) \o <<"}">>

\* a line that is no Put
NoPut == [ok |-> FALSE, key |-> <<>>, value |-> <<>>]

\* the end of a Put whose key was read as k and whose value as v
put_end(line, k, v) ==
    IF v.ok /\ v.next = Len(line) /\ line[v.next] = "}"
    THEN [ok |-> TRUE, key |-> k.val, value |-> v.val]
    ELSE NoPut

\* the value field of a Put whose key was read as k
put_value(line, k) ==
    IF ~k.ok \/ ~Expect(line, k.next, PutValueField) THEN NoPut
    ELSE put_end(line, k, ParseBytes(line, k.next + Len(PutValueField)))

\* serde_json::from_str::<Put>(line): [ok, key, value]
put_from_str(line) ==
    IF ~Expect(line, 1, PutKeyField) THEN NoPut
    ELSE put_value(line, ParseBytes(line, Len(PutKeyField) + 1))

\* BufReader::lines(): the text split at "\n"; a last line without "\n" counts
RECURSIVE Lines(_)
Lines(toks) ==
    IF toks = <<>> THEN <<>>
    ELSE IF \E j \in 1..Len(toks) : toks[j] = "\n"
    THEN LET nl == CHOOSE j \in 1..Len(toks) :
                      toks[j] = "\n" /\ \A i \in 1..(j - 1) : toks[i] # "\n"
         IN  <<SubSeq(toks, 1, nl - 1)>> \o Lines(SubSeq(toks, nl + 1, Len(toks)))
    ELSE <<toks>>

\* Vec<(Vec<u8>, u64)>: serde_json::to_string(&index), as [[[1],0],[[1,16],336]]
RECURSIVE index_entries_to_string(_)
index_entries_to_string(index) ==
    IF index = <<>> THEN <<>>
    ELSE <<"[">> \o BytesTok(index[1][1]) \o <<",">> \o NumText(index[1][2]) \o <<"]">>
         \o (IF Len(index) = 1 THEN <<>> ELSE <<",">>)
         \o index_entries_to_string(Tail(index))

index_to_string(index) == <<"[">> \o index_entries_to_string(index) \o <<"]">>

\* reads the entries from pos on, where an entry begins: [ok, val]
RECURSIVE index_entries_from_str(_, _, _)

\* a text that is no index
NoIndex == [ok |-> FALSE, val |-> <<>>]

\* the end of the entry whose key was read as k and whose offset as n: "]",
\* then "]" at the end of the text, or "," and the next entry
index_entry_end(text, acc, k, n) ==
    IF ~n.ok \/ ~Expect(text, n.next, <<"]">>) THEN NoIndex
    ELSE IF n.next + 1 = Len(text) /\ text[n.next + 1] = "]"
    THEN [ok |-> TRUE, val |-> Append(acc, <<k.val, n.val>>)]
    ELSE IF Expect(text, n.next + 1, <<",">>)
    THEN index_entries_from_str(text, n.next + 2, Append(acc, <<k.val, n.val>>))
    ELSE NoIndex

\* the offset of the entry whose key was read as k
index_entry_offset(text, acc, k) ==
    IF ~k.ok \/ ~Expect(text, k.next, <<",">>) THEN NoIndex
    ELSE index_entry_end(text, acc, k, ParseNum(text, k.next + 1, TRUE))

index_entries_from_str(text, pos, acc) ==
    IF pos > Len(text) \/ text[pos] # "[" THEN NoIndex
    ELSE index_entry_offset(text, acc, ParseBytes(text, pos + 1))

\* serde_json::from_str::<Vec<(Vec<u8>, u64)>>(index_contents): [ok, val]
index_from_str(text) ==
    IF text = <<"[", "]">> THEN [ok |-> TRUE, val |-> <<>>]
    ELSE IF Len(text) < 2 \/ text[1] # "[" THEN NoIndex
    ELSE index_entries_from_str(text, 2, <<>>)

(***************************************************************************)
(* Paths and the file system.                                              *)
(***************************************************************************)
MaxTime == 2

MetaJson == "db/meta.json"                          \* dir.join("meta.json")
LogPath0 == "db/log"                                \* db_dir.join("log")
LogPathAt(t) == "db/log-" \o ToString(t)            \* dir.join(get_filename("log"))
DataPath(t) == "db/" \o ToString(t) \o ".sst"
IndexPath(t) == "db/" \o ToString(t) \o ".idx"
DescPath(t) == "db/" \o ToString(t) \o ".meta"

Times == 1..MaxTime
LogPaths == {LogPath0} \cup { LogPathAt(t) : t \in Times }
AllPaths ==
    {MetaJson} \cup LogPaths
    \cup { DataPath(t) : t \in Times } \cup { IndexPath(t) : t \in Times }
    \cup { DescPath(t) : t \in Times }

\* a path that names no file of the directory
NoPath == "?"

\* every path with its characters
PathTexts ==
    { <<MetaJson, <<"d", "b", "/", "m", "e", "t", "a", ".", "j", "s", "o", "n">> >>,
      <<LogPath0, <<"d", "b", "/", "l", "o", "g">> >> }
    \cup { <<LogPathAt(t), <<"d", "b", "/", "l", "o", "g", "-">> \o NumText(t)>> : t \in Times }
    \cup { <<DataPath(t), <<"d", "b", "/">> \o NumText(t) \o <<".", "s", "s", "t">> >> : t \in Times }
    \cup { <<IndexPath(t), <<"d", "b", "/">> \o NumText(t) \o <<".", "i", "d", "x">> >> : t \in Times }
    \cup { <<DescPath(t), <<"d", "b", "/">> \o NumText(t) \o <<".", "m", "e", "t", "a">> >> : t \in Times }

\* component i of the one pair in es, or none when es is empty
PathPart(es, i, none) == IF es = {} THEN none ELSE (CHOOSE e \in es : TRUE)[i]

\* the characters of a path
PathText(p) == PathPart({ e \in PathTexts : e[1] = p }, 2, <<"?">>)

\* the path that the characters spell
PathOf(chars) == PathPart({ e \in PathTexts : e[2] = chars }, 1, NoPath)

\* a file: what a read gives now (data) and what is on stable storage (durable)
NoFile == [exists |-> FALSE, data |-> <<>>, durable |-> <<>>]

\* OpenOptions::create(true) / File::create on a path: the file comes to exist
Created(f) == IF f.exists THEN f ELSE [exists |-> TRUE, data |-> <<>>, durable |-> <<>>]
\* File::create: create or truncate
Truncated(f) == [Created(f) EXCEPT !.data = <<>>]
\* sync_all
Synced(f) == [f EXCEPT !.durable = f.data]

(***************************************************************************)
(* The descriptor of an SSTable and the engine metadata, as JSON.          *)
(***************************************************************************)
\* struct SSTableMetadata
SSTableMetadata(t) ==
    [written_timestamp |-> t, meta_path |-> DescPath(t),
     data_path |-> DataPath(t), index_path |-> IndexPath(t)]

TimestampField == <<"{", "\"", "w", "r", "i", "t", "t", "e", "n", "_", "t", "i", "m", "e", "s", "t", "a", "m", "p", "\"", ":">>
MetaPathField == <<",", "\"", "m", "e", "t", "a", "_", "p", "a", "t", "h", "\"", ":">>
DataPathField == <<",", "\"", "d", "a", "t", "a", "_", "p", "a", "t", "h", "\"", ":">>
IndexPathField == <<",", "\"", "i", "n", "d", "e", "x", "_", "p", "a", "t", "h", "\"", ":">>

\* serde_json::to_string(&meta) of an SSTableMetadata
sstmeta_to_string(m) ==
    TimestampField \o NumText(m.written_timestamp)
    \o MetaPathField \o StringText(PathText(m.meta_path))
    \o DataPathField \o StringText(PathText(m.data_path))
    \o IndexPathField \o StringText(PathText(m.index_path)) \o <<"}">>

\* a text that is no descriptor, or no engine metadata
NoMeta == [ok |-> FALSE, val |-> <<>>]

\* the end of a descriptor whose fields were read as t, m, d and i
sstmeta_end(text, t, m, d, i) ==
    IF ~i.ok \/ i.next # Len(text) \/ text[i.next] # "}" THEN NoMeta
    ELSE [ok |-> TRUE,
          val |-> [written_timestamp |-> t.val, meta_path |-> PathOf(m.val),
                   data_path |-> PathOf(d.val), index_path |-> PathOf(i.val)]]

\* the index_path field, after written_timestamp t, meta_path m, data_path d
sstmeta_index_path(text, t, m, d) ==
    IF ~d.ok \/ ~Expect(text, d.next, IndexPathField) THEN NoMeta
    ELSE sstmeta_end(text, t, m, d, ParseString(text, d.next + Len(IndexPathField)))

\* the data_path field, after written_timestamp t and meta_path m
sstmeta_data_path(text, t, m) ==
    IF ~m.ok \/ ~Expect(text, m.next, DataPathField) THEN NoMeta
    ELSE sstmeta_index_path(text, t, m, ParseString(text, m.next + Len(DataPathField)))

\* the meta_path field, after written_timestamp t
sstmeta_meta_path(text, t) ==
    IF ~t.ok \/ ~Expect(text, t.next, MetaPathField) THEN NoMeta
    ELSE sstmeta_data_path(text, t, ParseString(text, t.next + Len(MetaPathField)))

\* serde_json::from_str::<SSTableMetadata>(contents): [ok, val]
sstmeta_from_str(text) ==
    IF ~Expect(text, 1, TimestampField) THEN NoMeta
    ELSE sstmeta_meta_path(text, ParseNum(text, Len(TimestampField) + 1, TRUE))

SstablesField == <<"{", "\"", "s", "s", "t", "a", "b", "l", "e", "s", "\"", ":", "[">>
WalField == <<"]", ",", "\"", "w", "a", "l", "\"", ":">>

\* Vec<String> as the items of a JSON array
RECURSIVE PathItems(_)
PathItems(paths) ==
    IF paths = <<>> THEN <<>>
    ELSE StringText(PathText(paths[1]))
         \o (IF Len(paths) = 1 THEN <<>> ELSE <<",">>) \o PathItems(Tail(paths))

\* struct DbMeta {sstables: Vec<String>, wal: PathBuf}: serde_json::to_string
dbmeta_to_string(m) ==
    SstablesField \o PathItems(m.sstables) \o WalField
    \o StringText(PathText(m.wal)) \o <<"}">>

\* reads the strings of a Vec<String> from pos, where one begins: [ok, val, next]
RECURSIVE ParsePathItems(_, _, _)

\* the list after its string x was read: "]" ends it, "," goes on
PathItemsNext(text, x, acc) ==
    LET bad == [ok |-> FALSE, val |-> <<>>, next |-> 0]
    IN  IF ~x.ok \/ x.next > Len(text) THEN bad
        ELSE IF text[x.next] = "]"
             THEN [ok |-> TRUE, val |-> Append(acc, PathOf(x.val)), next |-> x.next]
        ELSE IF text[x.next] = ","
             THEN ParsePathItems(text, x.next + 1, Append(acc, PathOf(x.val)))
        ELSE bad

ParsePathItems(text, pos, acc) == PathItemsNext(text, ParseString(text, pos), acc)

\* the end of the metadata whose list was read as l and whose wal as w
dbmeta_end(text, l, w) ==
    IF ~w.ok \/ w.next # Len(text) \/ text[w.next] # "}" THEN NoMeta
    ELSE [ok |-> TRUE, val |-> [sstables |-> l.val, wal |-> PathOf(w.val)]]

\* the wal field, after the list of descriptor paths l
dbmeta_wal(text, l) ==
    IF ~l.ok \/ ~Expect(text, l.next, WalField) THEN NoMeta
    ELSE dbmeta_end(text, l, ParseString(text, l.next + Len(WalField)))

\* serde_json::from_str::<DbMeta>(contents): [ok, val]
dbmeta_from_str(text) ==
    IF ~Expect(text, 1, SstablesField) \/ Len(SstablesField) + 1 > Len(text) THEN NoMeta
    ELSE dbmeta_wal(text, IF text[Len(SstablesField) + 1] = "]"
                          THEN [ok |-> TRUE, val |-> <<>>, next |-> Len(SstablesField) + 1]
                          ELSE ParsePathItems(text, Len(SstablesField) + 1, <<>>))

(***************************************************************************)
(* Memtable.                                                               *)
(***************************************************************************)
EmptyMemtable == [k \in {} |-> <<>>]

\* BTreeMap::insert
Memtable_insert(m, key, value) ==
    [k \in DOMAIN m \cup {key} |-> IF k = key THEN value ELSE m[k]]

\* <Memtable as Queryable>::get
Memtable_get(m, key) == IF key \in DOMAIN m THEN Some(m[key]) ELSE None

\* a hydrate loop that steps over a line it cannot parse
RECURSIVE hydrate_loop_skip(_, _)
hydrate_loop_skip(lines, data) ==
    IF lines = <<>> THEN [tag |-> "Ok", val |-> data]
    ELSE LET put == put_from_str(lines[1])
         IN  IF ~put.ok THEN hydrate_loop_skip(Tail(lines), data)
             ELSE hydrate_loop_skip(Tail(lines),
                      [k \in DOMAIN data \cup {put.key} |->
                          IF k = put.key THEN put.value ELSE data[k]])

\* a hydrate loop where the first line of a key wins over the later ones
RECURSIVE hydrate_loop_first(_, _)
hydrate_loop_first(lines, data) ==
    IF lines = <<>> THEN [tag |-> "Ok", val |-> data]
    ELSE LET put == put_from_str(lines[1])
         IN  IF ~put.ok THEN SerdeErr
             ELSE hydrate_loop_first(Tail(lines),
                      [k \in DOMAIN data \cup {put.key} |->
                          IF k \in DOMAIN data THEN data[k] ELSE put.value])

\* the while loop of Memtable::hydrate over the remaining lines
RECURSIVE hydrate_loop(_, _)
hydrate_loop(lines, data) ==
    IF lines = <<>> THEN [tag |-> "Ok", val |-> data]
    ELSE LET put == put_from_str(lines[1])
         IN  IF ~put.ok THEN SerdeErr
             ELSE hydrate_loop(Tail(lines), Memtable_insert(data, put.key, put.value))

\* Memtable::hydrate(log), given the log's file
Memtable_hydrate(f) ==
    IF ~f.exists THEN IoErr ELSE hydrate_loop(Lines(f.data), EmptyMemtable)

\* BTreeMap::into_iter: the entries in ascending key order
RECURSIVE into_iter(_)
into_iter(m) ==
    IF DOMAIN m = {} THEN <<>>
    ELSE LET k == CHOOSE x \in DOMAIN m : \A y \in DOMAIN m : ~SliceLess(y, x)
         IN  << <<k, m[k]>> >> \o into_iter([x \in DOMAIN m \ {k} |-> m[x]])

(***************************************************************************)
(* SSTable::open and the order of SSTables.                                *)
(***************************************************************************)
\* SSTable::open once the index file was read as ix
SSTable_open_index(m, ix) ==
    IF ~ix.ok THEN SerdeErr
    ELSE [tag |-> "Ok",
          val |-> [meta |-> m.val, index |-> ix.val, data_file |-> "read"]]

\* SSTable::open once the descriptor was read as m: the data and index files
\* are opened
SSTable_open_files(F, m) ==
    IF ~m.ok THEN SerdeErr
    ELSE IF m.val.data_path \notin AllPaths \/ m.val.index_path \notin AllPaths
    THEN IoErr
    ELSE IF ~F[m.val.data_path].exists \/ ~F[m.val.index_path].exists THEN IoErr
    ELSE SSTable_open_index(m, index_from_str(F[m.val.index_path].data))

\* SSTable::open(path) on file system F: [tag, val]; path already ends ".meta",
\* so with_extension("meta") leaves it as it is
SSTable_open(F, path) ==
    IF path \notin AllPaths \/ ~F[path].exists THEN IoErr
    ELSE SSTable_open_files(F, sstmeta_from_str(F[path].data))

\* an order of SSTables by ascending written_timestamp
SSTable_less_ascending(a, b) == a.meta.written_timestamp < b.meta.written_timestamp

\* impl Ord for SSTable: a sorts before b iff a's written_timestamp is greater
SSTable_less(a, b) == a.meta.written_timestamp > b.meta.written_timestamp

\* Vec::sort (stable): insertion of each element after its equals
RECURSIVE sort_insert(_, _)
sort_insert(sorted, x) ==
    IF sorted = <<>> THEN <<x>>
    ELSE IF SSTable_less(x, sorted[1]) THEN <<x>> \o sorted
    ELSE <<sorted[1]>> \o sort_insert(Tail(sorted), x)

RECURSIVE sort(_)
sort(v) ==
    IF v = <<>> THEN <<>>
    ELSE sort_insert(sort(SubSeq(v, 1, Len(v) - 1)), v[Len(v)])

(***************************************************************************)
(* I/O faults.  A fault names the call that fails; a failing write has     *)
(* put `cut` bytes of what it was writing into the file.                   *)
(***************************************************************************)
NoFault == [at |-> "none", cut |-> 0]
Fault(at, cut) == [at |-> at, cut |-> cut]

(***************************************************************************)
(* Writes on a bare tokio::fs::File.  write_all returns when the bytes are *)
(* handed to a blocking thread; the write(2) runs later, unless a flush or *)
(* sync_all on the same File waits for it, and its error is not returned.  *)
(* A Write is what such a call leaves behind: the bytes that will reach    *)
(* the file, at offset 0 of it.                                            *)
(***************************************************************************)
Write(path, text) == [path |-> path, text |-> text]

\* the write(2) of w runs
Land(F, w) == [F EXCEPT ![w.path].data = WriteAtStart(@, w.text)]

\* the writes of ws that are not in `late` run, in order
RECURSIVE LandAll(_, _, _)
LandAll(F, ws, late) ==
    IF ws = <<>> THEN F
    ELSE LandAll(IF ws[1] \in late THEN F ELSE Land(F, ws[1]), Tail(ws), late)

(***************************************************************************)
(* Log.                                                                    *)
(***************************************************************************)
\* Log::open(path): OpenOptions append(true).create(true)
Log_open(F, path) == [F EXCEPT ![path] = Created(@)]

\* Log::put on the log's file f: write_all(serialized), write_all("\n"),
\* flush, sync_all, on a BufWriter: flush waits for the write.  [file, out]
Log_put(f, key, value, fault) ==
    LET bytes == put_to_string(key, value) \o <<"\n">>
    IN  IF fault.at = "log_write"
        THEN [file |-> [f EXCEPT !.data = @ \o SubSeq(bytes, 1, fault.cut)],
              out |-> IoErr]
        ELSE IF fault.at = "log_sync"
        THEN [file |-> [f EXCEPT !.data = @ \o bytes], out |-> IoErr]
        ELSE [file |-> Synced([f EXCEPT !.data = @ \o bytes]), out |-> OkUnit]

(***************************************************************************)
(* SSTable::construct on the file system, at SystemTime::now() = t.        *)
(* [fs, out, writes]; out is Ok with the SSTable, or the I/O error; writes *)
(* are the writes construct has not waited for.                            *)
(***************************************************************************)
\* the file operations of construct: m is the descriptor, c the data bytes
\* and the index of the loop, itext and mtext the JSON of index and descriptor
construct_files(F, m, c, itext, mtext, fault) ==
    LET F1 == [F EXCEPT ![m.data_path] = Created(@)]
        \* the BufWriter is flushed, which waits for the write, then sync_all
        F2 == [F1 EXCEPT ![m.data_path].data = WriteAtStart(@, c.data)]
        F3 == [F2 EXCEPT ![m.data_path] = Synced(@)]
        F4 == [F3 EXCEPT ![m.index_path] = Created(@)]
        \* index_file.write_all, then sync_all, which waits for the write and
        \* keeps its error to itself: a failed write leaves `cut` bytes
        F5 == [F4 EXCEPT ![m.index_path].data =
                  WriteAtStart(@, IF fault.at = "index_write"
                                  THEN SubSeq(itext, 1, fault.cut) ELSE itext)]
        F6 == [F5 EXCEPT ![m.index_path] = Synced(@)]
        F7 == [F6 EXCEPT ![m.meta_path] = Created(@)]
        \* meta_file.write_all and nothing that waits for it
        w == Write(m.meta_path, IF fault.at = "desc_write"
                                THEN SubSeq(mtext, 1, fault.cut) ELSE mtext)
        err(G) == [fs |-> G, out |-> IoErr, writes |-> <<>>]
    IN  CASE fault.at = "data_open" -> err(F)
          [] fault.at = "data_write" ->
               err([F1 EXCEPT ![m.data_path].data =
                        WriteAtStart(@, SubSeq(c.data, 1, fault.cut))])
          [] fault.at = "data_sync" -> err(F2)
          [] fault.at = "index_open" -> err(F3)
          [] fault.at = "index_sync" -> err(F5)
          [] fault.at = "desc_open" -> err(F6)
          [] OTHER -> [fs |-> F7,
                       out |-> [tag |-> "Ok",
                               val |-> [meta |-> m, index |-> c.index,
                                        data_file |-> "write"]],
                       writes |-> <<w>>]

\* the files of construct, c being what the loop produced
construct_texts(F, m, c, fault) ==
    construct_files(F, m, c, index_to_string(c.index), sstmeta_to_string(m), fault)

SSTable_construct(F, t, data, fault) ==
    construct_texts(F, SSTableMetadata(t), construct(data), fault)

(***************************************************************************)
(* struct Db.  D is the Db value [log, memtable, sstables, meta], F the     *)
(* file system.                                                            *)
(***************************************************************************)
InitialMeta == [sstables |-> <<>>, wal |-> LogPath0]
NoDb == [log |-> LogPath0, memtable |-> EmptyMemtable, sstables |-> <<>>,
         meta |-> InitialMeta]

\* the SSTable::open results in completion order `order`, collected into
\* Result<Vec<_>, _>: the first error in that order, else all the tables
RECURSIVE collect(_, _, _, _)

\* the next result r in completion order
collect_next(F, paths, order, acc, r) ==
    IF r.tag # "Ok" THEN r
    ELSE collect(F, paths, Tail(order), Append(acc, r.val))

collect(F, paths, order, acc) ==
    IF order = <<>> THEN [tag |-> "Ok", val |-> acc]
    ELSE collect_next(F, paths, order, acc, SSTable_open(F, paths[order[1]]))

\* Db::new once the log is hydrated as mt and the SSTables are opened as ss,
\* on the file system F2 with the metadata m and the writes ws in flight
Db_new_tables(F2, ws, m, mt, ss) ==
    IF mt.tag # "Ok" THEN [fs |-> F2, db |-> NoDb, out |-> mt, writes |-> ws]
    ELSE IF ss.tag # "Ok" THEN [fs |-> F2, db |-> NoDb, out |-> ss, writes |-> ws]
    ELSE [fs |-> F2,
          db |-> [log |-> LogPath0, memtable |-> mt.val,
                  sstables |-> sort(ss.val), meta |-> m],
          out |-> OkUnit,
          writes |-> ws]

\* Db::new once Log::open(db_dir.join("log")) gave the file system F2: the
\* path is not taken from meta.wal
Db_new_log(F2, ws, m, order) ==
    Db_new_tables(F2, ws, m, Memtable_hydrate(F2[LogPath0]),
                  collect(F2, m.sstables, order, <<>>))

\* Db::new once meta.json was read as loaded
Db_new_meta(F, loaded, order) ==
    IF ~loaded.ok THEN [fs |-> F, db |-> NoDb, out |-> SerdeErr, writes |-> <<>>]
    ELSE Db_new_log(Log_open(F, LogPath0), <<>>, loaded.val, order)

\* Db::new("db"): [fs, db, out, writes].  Without a meta.json:
\* File::create(&meta_path), then write_all and nothing that waits for it
Db_new(F, order) ==
    IF F[MetaJson].exists
    THEN Db_new_meta(F, dbmeta_from_str(F[MetaJson].data), order)
    ELSE Db_new_log(Log_open([F EXCEPT ![MetaJson] = Created(@)], LogPath0),
                    <<Write(MetaJson, dbmeta_to_string(InitialMeta))>>,
                    InitialMeta, order)

\* Db::put: [fs, db, out, writes]
Db_put(F, D, key, value, fault) ==
    LET r == Log_put(F[D.log], key, value, fault)
    IN  [fs |-> [F EXCEPT ![D.log] = r.file],
         db |-> IF r.out.tag = "Ok"
                THEN [D EXCEPT !.memtable = Memtable_insert(@, key, value)]
                ELSE D,
         out |-> r.out,
         writes |-> <<>>]

\* the for loop of Db::get over the SSTables, each reading its data file
RECURSIVE get_sstables(_, _, _)
get_sstables(F, S, key) ==
    IF S = <<>> THEN None
    ELSE LET r == SSTable_get(S[1], F[S[1].meta.data_path].data, key)
         IN  IF r.tag = "None" THEN get_sstables(F, Tail(S), key) ELSE r

\* Db::get
Db_get(F, D, key) ==
    LET r == Memtable_get(D.memtable, key)
    IN  IF r.tag = "Some" THEN r ELSE get_sstables(F, D.sstables, key)

\* Db::update_meta: File::create (truncate), then write_all and nothing that
\* waits for it: a failed write is not seen.  [fs, db, out, writes]
update_meta(F, D, new_meta, fault) ==
    LET text == dbmeta_to_string(new_meta)
        F1 == [F EXCEPT ![MetaJson] = Truncated(@)]
    IN  IF fault.at = "meta_create"
        THEN [fs |-> F, db |-> D, out |-> IoErr, writes |-> <<>>]
        ELSE [fs |-> F1, db |-> [D EXCEPT !.meta = new_meta], out |-> OkUnit,
              writes |-> <<Write(MetaJson, IF fault.at = "meta_write"
                                           THEN SubSeq(text, 1, fault.cut) ELSE text)>>]

\* Db::get_filename(prefix) joined to dir, at SystemTime::now() = t
get_filename(t) == LogPathAt(t)

\* Db::flush_memtable: [fs, db, out, writes].  SSTable::construct reads the
\* clock as t1, get_filename reads it again as t2.  The SSTable goes back to
\* the caller in out; self.sstables is left as it was.
\* the end of flush_memtable: mt is what Memtable::hydrate(&self.log) gave
flush_return(c, u, mt) ==
    IF mt.tag # "Ok"
    THEN [fs |-> u.fs, db |-> u.db, out |-> mt, writes |-> c.writes \o u.writes]
    ELSE [fs |-> u.fs, db |-> [u.db EXCEPT !.memtable = mt.val], out |-> c.out,
          writes |-> c.writes \o u.writes]

\* flush_memtable once update_meta returned u: Memtable::hydrate(&self.log),
\* whose File::open(&log.path) can fail
flush_hydrate(c, log_path, u, fault) ==
    IF u.out.tag # "Ok"
    THEN [fs |-> u.fs, db |-> u.db, out |-> u.out, writes |-> c.writes \o u.writes]
    ELSE IF fault.at = "hydrate_open"
    THEN [fs |-> u.fs, db |-> u.db, out |-> IoErr, writes |-> c.writes \o u.writes]
    ELSE flush_return(c, u, Memtable_hydrate(u.fs[log_path]))

\* flush_memtable once SSTable::construct returned c; D0 is the Db after
\* std::mem::take.  Log::open(&log_path), self.log = ..., update_meta(new_meta)
flush_rotate(D0, log_path, c, fault) ==
    IF c.out.tag # "Ok"
    THEN [fs |-> c.fs, db |-> D0, out |-> c.out, writes |-> c.writes]
    ELSE IF fault.at = "log_open"
    THEN [fs |-> c.fs, db |-> D0, out |-> IoErr, writes |-> c.writes]
    ELSE flush_hydrate(c, log_path,
             update_meta(Log_open(c.fs, log_path), [D0 EXCEPT !.log = log_path],
                         [sstables |-> Append(D0.meta.sstables,
                                              c.out.val.meta.meta_path),
                          wal |-> log_path],
                         fault),
             fault)

flush_memtable(F, D, t1, t2, fault) ==
    flush_rotate([D EXCEPT !.memtable = EmptyMemtable], get_filename(t2),
                 SSTable_construct(F, t1, into_iter(D.memtable), fault), fault)

(***************************************************************************)
(* Spec: the engine as a state machine.                                    *)
(***************************************************************************)
MaxKey == 2
MaxVal == 2
MaxPuts == 2
MaxFlushes == 2
MaxOpens == 2
\* how many writes of a behaviour may reach their file after the call returned
MaxLate == 1
\* under SpecFault: one I/O fault, and either one flush with one put or no
\* flush with MaxPuts puts
MaxFaults == 1
MaxFlushesFault == 1
MaxPutsFault == 1

Keys == { <<b>> : b \in 1..MaxKey }
\* value number i is i bytes long
Values == { [j \in 1..i |-> i] : i \in 1..MaxVal }

\* where a write of n bytes may be cut short
Cuts(n) == { c \in {0, n \div 2, n - 1} : c >= 0 /\ c < n }

PutFaults(key, value) ==
    { Fault("log_write", c) : c \in Cuts(Len(put_to_string(key, value)) + 1) }
    \cup { Fault("log_sync", 0) }

\* the calls of a flush that can fail: those whose error flush_memtable
\* returns, and the three writes whose error it never sees
FlushFaults(D, t1, t2) ==
    LET c == construct(into_iter(D.memtable))
        new_meta == [sstables |-> Append(D.meta.sstables, DescPath(t1)),
                     wal |-> LogPathAt(t2)]
    IN  { Fault(a, 0) : a \in {"data_open", "data_sync", "index_open", "index_sync",
                               "desc_open", "log_open", "meta_create",
                               "hydrate_open"} }
        \cup { Fault("data_write", n) : n \in Cuts(Len(c.data)) }
        \cup { Fault("index_write", n) : n \in Cuts(Len(index_to_string(c.index))) }
        \cup { Fault("desc_write", n) :
                   n \in Cuts(Len(sstmeta_to_string(SSTableMetadata(t1)))) }
        \cup { Fault("meta_write", n) : n \in Cuts(Len(dbmeta_to_string(new_meta))) }

\* the completion orders of n concurrent SSTable::open futures
Orders(n) == { o \in [1..n -> 1..n] : \A i, j \in 1..n : o[i] = o[j] => i = j }

\* the Db value held by the process
TheDb == [log |-> log, memtable |-> memtable, sstables |-> sstables, meta |-> meta]

\* what each get would return now
GetAll == [k \in Keys |-> Db_get(fs, TheDb, k)]

NoPuts == [k \in Keys |-> None]

\* no SSTable held
NoTable == [built |-> FALSE, meta |-> <<>>, index |-> <<>>, data_file |-> "none"]

\* the files of the outcome r of an operation become the state; of the writes
\* r did not wait for, those in `late` stay in flight and the others reach
\* their file at once.  u is `used` with the operation counted.
InstallFiles(r, u) ==
    \E late \in SUBSET { r.writes[i] : i \in 1..Len(r.writes) } :
        /\ u.late + Cardinality(late) <= cap.late
        /\ fs' = LandAll(r.fs, r.writes, late)
        /\ pending' = pending \cup late
        /\ used' = [u EXCEPT !.late = @ + Cardinality(late)]

\* the outcome r of an operation of the Db becomes the state
Install(r, u) ==
    /\ log' = r.db.log
    /\ memtable' = r.db.memtable
    /\ sstables' = r.db.sstables
    /\ meta' = r.db.meta
    /\ InstallFiles(r, u)

\* the Db value is dropped
Drop ==
    /\ db' = "closed"
    /\ log' = NoDb.log
    /\ memtable' = NoDb.memtable
    /\ sstables' = NoDb.sstables
    /\ meta' = NoDb.meta

\* the state before the process first starts: an empty directory
Start ==
    /\ fs = [p \in AllPaths |-> NoFile]
    /\ now = 1
    /\ db = "closed"
    /\ log = NoDb.log
    /\ memtable = NoDb.memtable
    /\ sstables = NoDb.sstables
    /\ meta = NoDb.meta
    /\ ret = [op |-> "none", key |-> <<>>, out |-> OkUnit]
    /\ hist = [sess |-> NoPuts, run |-> NoPuts, everPut |-> {}, flushed |-> FALSE,
               snapped |-> FALSE, snap |-> NoPuts, fresh |-> FALSE]
    /\ used = [puts |-> 0, flushes |-> 0, opens |-> 0, faults |-> 0, late |-> 0]
    /\ pending = {}

Init ==
    /\ Start
    /\ cap = [puts |-> MaxPuts, flushes |-> MaxFlushes, opens |-> MaxOpens,
              faults |-> 0, late |-> MaxLate]
    /\ sst_input = <<>>
    /\ sst_table = NoTable
    /\ sst_result = [key |-> <<>>, out |-> None, start |-> 0]

InitFault ==
    /\ Start
    /\ cap \in { [puts |-> MaxPutsFault, flushes |-> MaxFlushesFault, opens |-> MaxOpens,
                  faults |-> MaxFaults, late |-> MaxLate],
                 [puts |-> MaxPuts, flushes |-> 0, opens |-> MaxOpens,
                  faults |-> MaxFaults, late |-> MaxLate] }
    /\ sst_input = <<>>
    /\ sst_table = NoTable
    /\ sst_result = [key |-> <<>>, out |-> None, start |-> 0]

\* Db::new("db")
Open ==
    /\ db = "closed"
    /\ used.opens < cap.opens
    /\ LET listed == dbmeta_from_str(fs[MetaJson].data)
           n == IF fs[MetaJson].exists /\ listed.ok THEN Len(listed.val.sstables) ELSE 0
       IN  \E order \in Orders(n) :
             \E r \in {Db_new(fs, order)} :
                 /\ Install(r, [used EXCEPT !.opens = @ + 1])
                 /\ db' = IF r.out.tag = "Ok" THEN "open" ELSE "closed"
                 /\ ret' = [op |-> "new", key |-> <<>>, out |-> r.out]
                 /\ hist' = [hist EXCEPT !.sess = NoPuts, !.run = NoPuts,
                                         !.fresh = (r.out.tag = "Ok")]
    /\ UNCHANGED <<now, cap>>
    /\ UNCHANGED sstVars

\* Db::put(key, value), with or without an I/O fault
PutWith(key, value, fault, u) ==
    \E r \in {Db_put(fs, TheDb, key, value, fault)} :
        /\ Install(r, u)
        /\ ret' = [op |-> "put", key |-> key, out |-> r.out]
        /\ hist' = [hist EXCEPT
                      !.sess = IF r.out.tag = "Ok" THEN [@ EXCEPT ![key] = Some(value)] ELSE @,
                      !.run = IF r.out.tag = "Ok" THEN [@ EXCEPT ![key] = Some(value)] ELSE @,
                      !.everPut = @ \cup {key},
                      !.fresh = FALSE]
        /\ UNCHANGED <<db, now, cap>>
        /\ UNCHANGED sstVars

Put(key, value) ==
    /\ db = "open"
    /\ used.puts < cap.puts
    /\ PutWith(key, value, NoFault, [used EXCEPT !.puts = @ + 1])

PutFault(key, value) ==
    /\ db = "open"
    /\ used.faults < cap.faults
    /\ \E fault \in PutFaults(key, value) :
         PutWith(key, value, fault, [used EXCEPT !.faults = @ + 1])

\* Db::get(key); a panic ends the process
Get(key) ==
    /\ db = "open"
    /\ \E out \in {Db_get(fs, TheDb, key)} :
           /\ ret' = [op |-> "get", key |-> key, out |-> out]
           /\ IF out.tag = "Panic"
              THEN /\ Drop
                   /\ hist' = [hist EXCEPT !.snapped = TRUE, !.snap = GetAll,
                                           !.fresh = FALSE]
              ELSE /\ UNCHANGED <<db, log, memtable, sstables, meta>>
                   /\ UNCHANGED hist
    /\ UNCHANGED <<fs, now, used, cap, pending>>
    /\ UNCHANGED sstVars

\* Db::flush_memtable(), with or without an I/O fault; the clock reads `now`
\* in SSTable::construct and t2 in get_filename
FlushWith(t2, fault, u) ==
    \E r \in {flush_memtable(fs, TheDb, now, t2, fault)} :
        /\ Install(r, u)
        /\ now' = t2
        /\ ret' = [op |-> "flush", key |-> <<>>,
                   out |-> IF r.out.tag = "Ok" THEN OkUnit ELSE r.out]
        /\ hist' = [hist EXCEPT !.run = NoPuts, !.flushed = TRUE, !.fresh = FALSE]
        /\ UNCHANGED <<db, cap>>
        /\ UNCHANGED sstVars

Flush ==
    /\ db = "open"
    /\ used.flushes < cap.flushes
    /\ \E t2 \in now..MaxTime :
         FlushWith(t2, NoFault, [used EXCEPT !.flushes = @ + 1])

FlushFault ==
    /\ db = "open"
    /\ used.flushes < cap.flushes
    /\ used.faults < cap.faults
    /\ \E t2 \in now..MaxTime :
         \E fault \in FlushFaults(TheDb, now, t2) :
           FlushWith(t2, fault, [used EXCEPT !.flushes = @ + 1, !.faults = @ + 1])

\* a write in flight reaches its file
LandWrite ==
    /\ \E w \in pending :
         /\ fs' = Land(fs, w)
         /\ pending' = pending \ {w}
    /\ hist' = [hist EXCEPT !.fresh = FALSE]
    /\ UNCHANGED <<now, db, log, memtable, sstables, meta, ret, used, cap>>
    /\ UNCHANGED sstVars

\* the Db value is dropped; files and the writes in flight stay as they are
Close ==
    /\ db = "open"
    /\ Drop
    /\ ret' = [op |-> "close", key |-> <<>>, out |-> OkUnit]
    /\ hist' = [hist EXCEPT !.snapped = TRUE, !.snap = GetAll, !.fresh = FALSE]
    /\ UNCHANGED <<fs, now, used, cap, pending>>
    /\ UNCHANGED sstVars

\* the machine goes down between two operations: the writes in flight are
\* gone, and of the files written and not synced, those in `lost` fall back to
\* what was on stable storage
Crash ==
    /\ db = "open"
    /\ \E lost \in SUBSET { p \in AllPaths : fs[p].data # fs[p].durable } :
         fs' = [p \in AllPaths |->
                  IF p \in lost THEN [fs[p] EXCEPT !.data = fs[p].durable]
                  ELSE Synced(fs[p])]
    /\ pending' = {}
    /\ Drop
    /\ ret' = [op |-> "crash", key |-> <<>>, out |-> OkUnit]
    /\ hist' = [hist EXCEPT !.snapped = TRUE, !.snap = GetAll, !.fresh = FALSE]
    /\ UNCHANGED <<now, used, cap>>
    /\ UNCHANGED sstVars

\* a second passes
Tick ==
    /\ now < MaxTime
    /\ now' = now + 1
    /\ UNCHANGED <<fs, db, log, memtable, sstables, meta, ret, hist, used, cap, pending>>
    /\ UNCHANGED sstVars

Next ==
    \/ Open
    \/ \E k \in Keys, v \in Values : Put(k, v)
    \/ \E k \in Keys : Get(k)
    \/ Flush
    \/ LandWrite
    \/ Close
    \/ Crash
    \/ Tick

Spec == Init /\ [][Next]_vars

\* the same engine with I/O faults; as in Next, a write the code did not wait
\* for may reach its file after the call returned
NextFault ==
    \/ Open
    \/ \E k \in Keys, v \in Values : Put(k, v)
    \/ \E k \in Keys, v \in Values : PutFault(k, v)
    \/ \E k \in Keys : Get(k)
    \/ Flush
    \/ FlushFault
    \/ LandWrite
    \/ Close
    \/ Crash
    \/ Tick

SpecFault == InitFault /\ [][NextFault]_vars

(***************************************************************************)
(* SpecWal: one session of puts on a new directory, no flush: the WAL that *)
(* Log::put writes against the memtable that Db::put fills in memory.  The *)
(* text Db::new writes to meta.json may reach the file after it returned.  *)
(***************************************************************************)
MaxWalPuts == 4

InitWal ==
    /\ Start
    /\ cap = [puts |-> MaxWalPuts, flushes |-> 0, opens |-> 1, faults |-> 0,
              late |-> MaxLate]
    /\ sst_input = <<>>
    /\ sst_table = NoTable
    /\ sst_result = [key |-> <<>>, out |-> None, start |-> 0]

NextWal ==
    \/ Open
    \/ \E k \in Keys, v \in Values : Put(k, v)
    \/ LandWrite

SpecWal == InitWal /\ [][NextWal]_vars

(***************************************************************************)
(* SpecSST: construct, open and get, on bounded sorted inputs.             *)
(***************************************************************************)
MaxRecords == 33

\* a universe of keys in ascending byte order, of one and two bytes
KeyU(i) ==
    IF (i - 1) % 4 = 0 THEN << (i - 1) \div 4 + 1 >>
    ELSE << (i - 1) \div 4 + 1, (i - 1) % 4 >>

\* values of length 0, 1 and 2
ValU(i) == [j \in 1..(i % 3) |-> (i * 7 + j) % 256]

\* n records starting at key number s, every d-th key of the universe
InputOf(s, d, n) == [i \in 1..n |-> << KeyU(s + (i - 1) * d), ValU(i) >>]

SstInputs ==
    { InputOf(s, d, n) : s \in 1..2, d \in 1..2, n \in 0..MaxRecords }

ProbeKeys == { KeyU(j) : j \in 1..(2 + MaxRecords * 2 + 1) }

NoResult == [key |-> <<>>, out |-> None, start |-> 0]

\* the SSTable value t, held
Held(t) == [built |-> TRUE, meta |-> t.meta, index |-> t.index,
            data_file |-> t.data_file]

\* SSTable::construct("db", sst_input) in an empty directory: the three files
\* are written and the SSTable it returns is held
SstConstruct ==
    /\ ~sst_table.built
    /\ \E r \in {SSTable_construct(fs, now, sst_input, NoFault)} :
         /\ InstallFiles(r, used)
         /\ sst_table' = Held(r.out.val)
         /\ ret' = [op |-> "construct", key |-> <<>>, out |-> OkUnit]
    /\ UNCHANGED <<now, db, log, memtable, sstables, meta, hist, cap>>
    /\ UNCHANGED <<sst_input, sst_result>>

\* SSTable::open of the descriptor construct wrote; the SSTable it returns
\* takes the place of the one construct returned
SstOpen ==
    /\ sst_table.built
    /\ sst_table.data_file = "write"
    /\ sst_result = NoResult
    /\ \E r \in {SSTable_open(fs, sst_table.meta.meta_path)} :
         /\ ret' = [op |-> "open", key |-> <<>>,
                    out |-> IF r.tag = "Ok" THEN OkUnit ELSE r]
         /\ sst_table' = IF r.tag = "Ok" THEN Held(r.val) ELSE sst_table
    /\ UNCHANGED <<fs, now, db, log, memtable, sstables, meta, hist, used, cap, pending>>
    /\ UNCHANGED <<sst_input, sst_result>>

\* one probe of the SSTable held per behaviour
SstGet(key) ==
    /\ sst_table.built
    /\ sst_result = NoResult
    /\ sst_result' = [key |-> key,
                      out |-> SSTable_get(sst_table,
                                          fs[sst_table.meta.data_path].data, key),
                      start |-> get_start(sst_table.index, key)]
    /\ UNCHANGED <<sst_input, sst_table>>
    /\ UNCHANGED engVars

InitSST ==
    /\ Start
    /\ cap = [puts |-> 0, flushes |-> 0, opens |-> 0, faults |-> 0, late |-> MaxLate]
    /\ sst_input \in SstInputs
    /\ sst_table = NoTable
    /\ sst_result = NoResult

NextSST ==
    \/ SstConstruct
    \/ SstOpen
    \/ \E k \in ProbeKeys : SstGet(k)
    \/ LandWrite

SpecSST == InitSST /\ [][NextSST]_vars

(***************************************************************************)
(* The properties.                                                         *)
(***************************************************************************)
GetNow(k) == Db_get(fs, TheDb, k)

\* C1: within one session of put, flush and get, get(k) returns the value of
\* the last put(k, v) of the session, also when a flush came between the two
\* (then from the flushed SSTable), and absence for a key nobody ever put.
C1_GetSeesLastPutAcrossFlush ==
    db = "open" =>
        \A k \in Keys :
            /\ hist.sess[k].tag = "Some" => GetNow(k) = hist.sess[k]
            /\ k \notin hist.everPut => GetNow(k) = None

\* C2: with no I/O fault in the history, right after the engine is closed (or
\* the machine crashes between operations) and opened again, get(k) returns for
\* every key what it returned before the close.
C2_ReopenKeepsEveryGet ==
    (db = "open" /\ hist.fresh /\ hist.snapped /\ used.faults = 0) =>
        \A k \in Keys : GetNow(k) = hist.snap[k]

\* C3: after the puts made since the open or the last flush (hist.run: the
\* last put to each key with no flush since), get(k) returns the value of the
\* last put to k, and get of a key that was never put returns absence.
C3_GetSeesLastPutBeforeFlush ==
    db = "open" =>
        \A k \in Keys :
            /\ hist.run[k].tag = "Some" => GetNow(k) = hist.run[k]
            /\ k \notin hist.everPut => GetNow(k) = None

InputKeys == { sst_input[i][1] : i \in 1..Len(sst_input) }

\* C4: a get on an SSTable constructed from an input, of a key of that input, returns exactly
\* the input's value for that key (the first record's key included).
C4_GetRoundTrip ==
    (sst_result # NoResult /\ sst_result.key \in InputKeys) =>
        \E i \in 1..Len(sst_input) :
            /\ sst_input[i][1] = sst_result.key
            /\ sst_result.out = Some(sst_input[i][2])

\* C5: a get on a constructed SSTable of a key that is not in its input returns
\* absence, no error and no underflow; when the key is below every indexed key
\* (or the index is empty) the scan starts at byte offset 0.
C5_AbsentKeyGivesNone ==
    (sst_result # NoResult /\ sst_result.key \notin InputKeys) =>
        /\ sst_result.out = None
        /\ (\A j \in 1..Len(sst_table.index) :
                SliceLess(sst_result.key, sst_table.index[j][1]))
             => sst_result.start = 0

\* the records of a data file read from byte offset `location` to its end
RECURSIVE Records(_, _)
Records(file, location) ==
    IF location + 4 > Len(file) THEN <<>>
    ELSE LET key_len == read_u32(SubSeq(file, location + 1, location + 4))
             kend == location + 4 + key_len
         IN  IF kend + 4 > Len(file) THEN <<>>
             ELSE LET value_len == read_u32(SubSeq(file, kend + 1, kend + 4))
                      vend == kend + 4 + value_len
                  IN  IF vend > Len(file) THEN <<>>
                      ELSE << <<SubSeq(file, location + 5, kend),
                                SubSeq(file, kend + 5, vend)>> >>
                           \o Records(file, vend)

\* the records held by loaded SSTable number i
TableRecords(i) == Records(fs[sstables[i].meta.data_path].data, 0)
TableHas(i, k) == \E j \in 1..Len(TableRecords(i)) : TableRecords(i)[j][1] = k
TableValue(i, k) ==
    LET recs == TableRecords(i)
    IN  recs[CHOOSE j \in 1..Len(recs) :
                 recs[j][1] = k /\ \A h \in 1..(j - 1) : recs[h][1] # k][2]

\* what the tiers hold for k: the memtable first, then the newest SSTable
TierValue(k) ==
    IF k \in DOMAIN memtable THEN Some(memtable[k])
    ELSE IF \E i \in 1..Len(sstables) : TableHas(i, k)
    THEN LET i == CHOOSE x \in 1..Len(sstables) :
                     /\ TableHas(x, k)
                     /\ \A y \in 1..Len(sstables) :
                           TableHas(y, k) =>
                               sstables[y].meta.written_timestamp
                                   <= sstables[x].meta.written_timestamp
         IN  Some(TableValue(i, k))
    ELSE None

\* C6: get(k) returns the memtable's value if the memtable has k, else the
\* value of the loaded SSTable with the greatest timestamp that has k, else
\* absence.
C6_GetFollowsTierPriority ==
    db = "open" => \A k \in Keys : GetNow(k) = TierValue(k)

\* the lines of a WAL that parse, and where it is damaged
LineOk(line) == put_from_str(line).ok
TornLastOnly(toks) ==
    LET ls == Lines(toks)
    IN  /\ ls # <<>>
        /\ ~LineOk(ls[Len(ls)])
        /\ \A i \in 1..(Len(ls) - 1) : LineOk(ls[i])
BadNonLast(toks) ==
    LET ls == Lines(toks) IN \E i \in 1..(Len(ls) - 1) : ~LineOk(ls[i])

\* the memtable of the lines before the last one, applied in order
RECURSIVE Replay(_, _)
Replay(ls, m) ==
    IF ls = <<>> THEN m
    ELSE LET p == put_from_str(ls[1])
         IN  Replay(Tail(ls), [k \in DOMAIN m \cup {p.key} |->
                                  IF k = p.key THEN p.value ELSE m[k]])
PriorLines(toks) == LET ls == Lines(toks) IN SubSeq(ls, 1, Len(ls) - 1)

\* the engine metadata and every SSTable it lists load without error
RestLoads ==
    LET m == dbmeta_from_str(fs[MetaJson].data)
    IN  /\ m.ok
        /\ \A i \in 1..Len(m.val.sstables) :
               SSTable_open(fs, m.val.sstables[i]).tag = "Ok"

\* C7: when only the last line of the WAL fails to parse, open drops that line
\* and succeeds, with the memtable of the lines before it.
C7_TornLastLineIsDropped ==
    (ret.op = "new" /\ TornLastOnly(fs[LogPath0].data) /\ RestLoads) =>
        /\ ret.out.tag = "Ok"
        /\ db = "open"
        /\ memtable = Replay(PriorLines(fs[LogPath0].data), EmptyMemtable)

\* C8: when a line of the WAL that is not the last one fails to parse, hydrate
\* gives a decode error and no memtable, and open fails with that error and
\* leaves no engine.
C8_CorruptLineAbortsReplay ==
    /\ \A p \in LogPaths :
           (fs[p].exists /\ BadNonLast(fs[p].data)) => Memtable_hydrate(fs[p]) = SerdeErr
    /\ (ret.op = "new" /\ BadNonLast(fs[LogPath0].data)) =>
           (ret.out = SerdeErr /\ db = "closed")

\* C8's case: an open that met a WAL whose first line is torn and whose second
\* line is whole, and returned the decode error.
C8_Witness ==
    /\ ret.op = "new" /\ ret.out = SerdeErr /\ db = "closed"
    /\ Len(Lines(fs[LogPath0].data)) = 2
    /\ ~LineOk(Lines(fs[LogPath0].data)[1])
    /\ dbmeta_from_str(fs[MetaJson].data).ok

\* the serialized put is one of the records (lines) of the text
InWal(toks, key, value) ==
    \E i \in 1..Len(Lines(toks)) : Lines(toks)[i] = put_to_string(key, value)

\* every entry of the memtable is a record of the WAL the engine appends to
MemtableInWal ==
    db = "open" => \A k \in DOMAIN memtable : InWal(fs[log].data, k, memtable[k])

\* a step that is a call of put
PutStep ==
    \/ used'.puts = used.puts + 1
    \/ used'.faults = used.faults + 1 /\ ret'.op = "put"

\* C9: put appends to the WAL before it touches the memtable: a put whose WAL
\* append fails returns the I/O error and leaves the memtable as it was, and
\* the memtable never holds an entry that is not in the WAL.
C9_WalBeforeMemtable ==
    /\ []MemtableInWal
    /\ [][(PutStep /\ ret'.out.tag # "Ok") =>
             (ret'.out = IoErr /\ memtable' = memtable)]_vars

\* a file that exists and whose bytes are all on stable storage
FileSynced(p) == p \in AllPaths /\ fs[p].exists /\ fs[p].durable = fs[p].data

\* C10: every SSTable descriptor path listed in meta.json names an SSTable
\* whose data, index and descriptor files are completely written and synced.
C10_MetaListsOnlySyncedTables ==
    LET m == dbmeta_from_str(fs[MetaJson].data)
    IN  (fs[MetaJson].exists /\ m.ok) =>
            \A i \in 1..Len(m.val.sstables) :
                LET p == m.val.sstables[i]
                    d == sstmeta_from_str(fs[p].data)
                IN  /\ FileSynced(p)
                    /\ d.ok
                    /\ FileSynced(d.val.data_path)
                    /\ FileSynced(d.val.index_path)
                    /\ index_from_str(fs[d.val.index_path].data).ok

\* a step that is a call of flush_memtable
FlushStep == used'.flushes = used.flushes + 1

\* C11: a flush that fails at any of its steps has no partial effect: the
\* memtable, the active WAL, the SSTable list, the engine's metadata and the
\* persisted meta.json are as before the call, and so is every get.
C11_FailedFlushHasNoEffect ==
    [][(FlushStep /\ ret'.out.tag # "Ok") =>
          /\ memtable' = memtable
          /\ log' = log
          /\ sstables' = sstables
          /\ meta' = meta
          /\ fs'[MetaJson].data = fs[MetaJson].data
          /\ \A k \in Keys :
                 Db_get(fs', [log |-> log', memtable |-> memtable',
                              sstables |-> sstables', meta |-> meta'], k)
                     = GetNow(k)]_vars

\* C12: right after an open, the WAL the engine appends to is the one recorded
\* in the engine metadata, and the memtable is the replay of that file; so
\* after flush, close and open it is the segment the flush rotated to.
C12_OpenReplaysRecordedWal ==
    (db = "open" /\ hist.fresh) =>
        /\ log = meta.wal
        /\ Memtable_hydrate(fs[meta.wal]) = [tag |-> "Ok", val |-> memtable]

\* the last value put to each key in this session, as a map
SessionPuts ==
    [k \in { x \in Keys : hist.sess[x].tag = "Some" } |-> hist.sess[k].val]

\* C13: the memtable hydrated from the WAL that a sequence of puts wrote equals
\* the memtable the same puts built in memory, the later put of a key winning.
C13_HydrateEqualsDirectPuts ==
    db = "open" =>
        /\ Memtable_hydrate(fs[log]) = [tag |-> "Ok", val |-> memtable]
        /\ memtable = SessionPuts

\* C13's case: three puts, the first and the third to the same key with
\* different values; the WAL has the three lines and its replay has the third.
C13_Witness ==
    /\ db = "open"
    /\ Lines(fs[log].data) =
           << put_to_string(<<1>>, <<1>>), put_to_string(<<2>>, <<1>>),
              put_to_string(<<1>>, <<2, 2>>) >>
    /\ Memtable_hydrate(fs[log]).val = [k \in {<<1>>, <<2>>} |->
                                           IF k = <<1>> THEN <<2, 2>> ELSE <<1>>]

\* the state right after a flush that succeeded
AfterFlush == db = "open" /\ ret.op = "flush" /\ ret.out.tag = "Ok"

\* C14: after a successful flush the new SSTable (the one whose descriptor was
\* appended to the metadata) is the first element of the engine's SSTable list.
C14_FlushInstallsNewTableFirst ==
    AfterFlush =>
        /\ sstables # <<>>
        /\ sstables[1].meta.meta_path = meta.sstables[Len(meta.sstables)]

\* the files of the SSTable written at second t, once its descriptor is whole
TableFiles(t) == {DataPath(t), IndexPath(t), DescPath(t)}
Constructed(t) == fs[DescPath(t)].data = sstmeta_to_string(SSTableMetadata(t))

\* C15: no operation of the engine changes the data, index or descriptor file
\* of an SSTable that was constructed before, also when two flushes fall in the
\* same second.
C15_TableFilesNeverChange ==
    [][ret'.op # "crash" =>
          \A t \in Times :
              Constructed(t) => \A p \in TableFiles(t) : fs'[p].data = fs[p].data]_vars

\* C16: right after every successful flush the memtable is empty, also when
\* the segment the flush rotates to exists already.
C16_MemtableEmptyAfterFlush ==
    AfterFlush => memtable = EmptyMemtable

\* the greatest index entry whose key is <= key (the index is sorted)
HasFloor(index, key) == \E j \in 1..Len(index) : ~SliceLess(key, index[j][1])
FloorEntry(index, key) ==
    CHOOSE j \in 1..Len(index) :
        /\ ~SliceLess(key, index[j][1])
        /\ \A h \in 1..Len(index) : ~SliceLess(key, index[h][1]) => h <= j

\* C17: get(k) starts its scan at the byte offset of the greatest index entry
\* whose key is <= k; a key that is an index key starts at its own entry.
C17_ScanStartsAtFloorEntry ==
    (sst_result # NoResult /\ HasFloor(sst_table.index, sst_result.key)) =>
        sst_result.start =
            sst_table.index[FloorEntry(sst_table.index, sst_result.key)][2]

\* the record of a data file that begins at byte offset `location`
RecordAt(file, location) ==
    LET key_len == read_u32(SubSeq(file, location + 1, location + 4))
        kend == location + 4 + key_len
        value_len == read_u32(SubSeq(file, kend + 1, kend + 4))
    IN  << SubSeq(file, location + 5, kend),
           SubSeq(file, kend + 5, kend + 4 + value_len) >>

\* the byte offset at which record number i (0-based) of the input begins
RECURSIVE OffsetOfRecord(_, _)
OffsetOfRecord(input, i) ==
    IF i = 0 THEN 0
    ELSE OffsetOfRecord(input, i - 1) + 8 + Len(input[i][1]) + Len(input[i][2])

\* C18: the index of an SSTable constructed from n records has ceil(n/16)
\* entries, entry j is (key of record 16*j, offset where record 16*j begins in
\* the data file), and the index keys are strictly increasing.
C18_IndexIsEverySixteenthRecord ==
    sst_table.built =>
        LET n == Len(sst_input)
            index == sst_table.index
        IN  /\ Len(index) = (n + IndexInterval - 1) \div IndexInterval
            /\ \A j \in 0..(Len(index) - 1) :
                   /\ index[j + 1][1] = sst_input[IndexInterval * j + 1][1]
                   /\ index[j + 1][2] = OffsetOfRecord(sst_input, IndexInterval * j)
                   /\ RecordAt(fs[sst_table.meta.data_path].data, index[j + 1][2])
                          = sst_input[IndexInterval * j + 1]
            /\ \A j \in 1..(Len(index) - 1) :
                   SliceLess(index[j][1], index[j + 1][1])

\* C18's case: 33 records, built: 3 entries, for records 0, 16 and 32.
C18_Witness ==
    /\ sst_table.built
    /\ Len(sst_input) = 33
    /\ Len(sst_table.index) = 3
    /\ sst_table.index[2][1] = sst_input[17][1]
    /\ sst_table.index[3][1] = sst_input[33][1]

\* C19: construct persists in order: the index file is written only when the
\* data file is synced, the descriptor only when the index file is synced, and
\* when construct has returned the descriptor is synced.
C19_ConstructPersistsInOrder ==
    ret.op = "flush" =>
        /\ \A t \in Times :
               /\ fs[IndexPath(t)].data # <<>> => FileSynced(DataPath(t))
               /\ fs[DescPath(t)].data # <<>> => FileSynced(IndexPath(t))
        /\ AfterFlush => FileSynced(meta.sstables[Len(meta.sstables)])

\* the SSTable list is in descending order of written_timestamp
Descending(S) ==
    \A i, j \in 1..Len(S) :
        i < j => S[i].meta.written_timestamp >= S[j].meta.written_timestamp

\* a step that is a call of Db::new that returned an engine
OpenStep == used'.opens = used.opens + 1 /\ db' = "open"

\* C20: the SSTable list is in descending timestamp order in every state, and
\* an open gives the list that every completion order of the SSTable opens
\* gives on the same files, with the same get results.
C20_TablesSortedWhateverTheOrder ==
    /\ [](db = "open" => Descending(sstables))
    /\ [][OpenStep =>
             \A order \in Orders(Len(meta'.sstables)) :
                 LET r == Db_new(fs, order)
                 IN  /\ r.out.tag = "Ok"
                     /\ r.db.sstables = sstables'
                     /\ \A k \in Keys :
                            Db_get(fs', r.db, k)
                                = Db_get(fs', [log |-> log', memtable |-> memtable',
                                               sstables |-> sstables', meta |-> meta'],
                                         k)]_vars

\* C20's case: an open that loaded two SSTables listed oldest first in the
\* metadata and holds them newest first.
C20_Witness ==
    /\ db = "open" /\ hist.fresh
    /\ meta.sstables = <<DescPath(1), DescPath(2)>>
    /\ Len(sstables) = 2
    /\ sstables[1].meta.written_timestamp = 2
    /\ sstables[2].meta.written_timestamp = 1

\* C21: a successful flush persists the previous metadata with the new
\* SSTable's descriptor path appended at the end of the list and the WAL path
\* set to the new segment, and the engine's metadata is the persisted one.
C21_FlushAppendsToMetadata ==
    [][(FlushStep /\ ret'.out.tag = "Ok") =>
          /\ meta' = [sstables |-> Append(meta.sstables, DescPath(now)),
                      wal |-> LogPathAt(now')]
          /\ dbmeta_from_str(fs'[MetaJson].data) = [ok |-> TRUE, val |-> meta']]_vars

\* a is a prefix of b
IsPrefix(a, b) == Len(a) <= Len(b) /\ SubSeq(b, 1, Len(a)) = a

\* C22: a successful flush makes a new segment the active WAL and leaves the
\* old WAL file as it was; a put appends to the active WAL only, changes no
\* other WAL file and keeps every earlier record of the active one.
C22_WalIsAppendOnlyAndRotated ==
    [][/\ (FlushStep /\ ret'.out.tag = "Ok") =>
              /\ log' # log
              /\ fs'[log] = fs[log]
       /\ PutStep =>
              /\ log' = log
              /\ \A p \in LogPaths \ {log} : fs'[p] = fs[p]
              /\ fs'[log].exists
              /\ IsPrefix(fs[log].data, fs'[log].data)]_vars

\* C23: in every state right after a successful open, put or flush, the
\* memtable is the replay of the WAL file the engine appends to.
C23_MemtableIsReplayOfActiveWal ==
    (db = "open" /\ ret.op \in {"new", "put", "flush"} /\ ret.out.tag = "Ok") =>
        Memtable_hydrate(fs[log]) = [tag |-> "Ok", val |-> memtable]

====
